---- MODULE Spec2Model ----
(***************************************************************************)
(* Model of generate_plots.py: the command-line entry point, load_data,    *)
(* filter_data, the metrics and the save step of make_plot, and main.      *)
(*                                                                         *)
(* File names are sequences of one-character strings, so that the          *)
(* substring test ('.csv' in name) and name.split('.')[0] are computed     *)
(* character by character.  Timestamps are integers (the "Time" column in  *)
(* a fixed unit); floating-point rounding is not modelled.                 *)
(***************************************************************************)
EXTENDS Integers, Sequences, FiniteSets, TLC

VARIABLES
    pc,           \* position of the run: "cli","list","read","filter","plot","done"
    hide,         \* args.hide
    save,         \* args.save
    figure_dir,   \* args.figure_dir ("None" when the option is absent)
    dirExists,    \* whether data_dir exists
    listing,      \* os.listdir(data_dir): sequence of entry names
    content,      \* entry name -> what pd.read_csv finds in that file
    names,        \* load_data: names (entries selected by '.csv' in name)
    filepaths,    \* load_data: filepaths (the entries the frames are read from)
    frames,       \* load_data: frames read so far
    titles,       \* main: names returned by load_data
    filtered,     \* main: filtered_frames
    k,            \* main: loop index of the make_plot loop (0-based)
    created,      \* titles of the figures created by plt.subplots, in order
    shown,        \* titles of the figures passed to plt.show, in order
    dirs,         \* directories that exist on the output side
    made,         \* directories created by os.makedirs, in order
    writes,       \* plt.savefig calls: [dir, file, title, src, plot], in order
    error,        \* "none" or the exception that ended the run
    trace,        \* input of the filter_data specification
    fresult,      \* result of filter_data on trace
    status_in,    \* input of the metrics specification: status "Time" array
    command_in,   \* input of the metrics specification: command "Time" array
    metrics       \* result of the metrics of make_plot

runVars == <<pc, hide, save, figure_dir, dirExists, listing, content, names,
             filepaths, frames, titles, filtered, k, created, shown, dirs,
             made, writes, error>>
filterVars == <<trace, fresult>>
metricVars == <<status_in, command_in, metrics>>
vars == <<runVars, filterVars, metricVars>>

----------------------------------------------------------------------------
(* Bounds *)

MaxFiles == 2      \* entries in the data directory
MaxRows == 3       \* rows of a trace given to filter_data
MaxLen == 3        \* length of a "Time" array given to the metrics
MaxTime == 2       \* timestamps range over 0..MaxTime

----------------------------------------------------------------------------
(* Sequence helpers *)

Min(a, b) == IF a < b THEN a ELSE b

Range(s) == { s[i] : i \in 1..Len(s) }

SeqsUpTo(S, n) == UNION { [1..m -> S] : m \in 0..n }

----------------------------------------------------------------------------
(* Strings as character sequences *)

CsvMarker == <<".", "c", "s", "v">>
PngSuffix == <<".", "p", "n", "g">>

\* Python: pat in name
Contains(name, pat) ==
    \E i \in 1..(Len(name) - Len(pat) + 1) :
        SubSeq(name, i, i + Len(pat) - 1) = pat

\* Python: name.split('.')[0]
SplitFirst(name) ==
    LET dots == { i \in 1..Len(name) : name[i] = "." }
    IN  IF dots = {} THEN name
        ELSE SubSeq(name, 1, (CHOOSE i \in dots : \A j \in dots : i <= j) - 1)

\* the test of the list comprehensions of load_data
IsCsv(name) == Contains(name, CsvMarker)

----------------------------------------------------------------------------
(* The environment of a run *)

NamePool ==
    { <<"a", ".", "c", "s", "v">>,
      <<"b", ".", "c", "s", "v">>,
      <<"a", ".", "b", ".", "c", "s", "v">>,
      <<"a", ".", "c", "s", "v", "x">>,
      <<"a", ".", "t", "x", "t">>,
      <<"c", "s", "v">> }

DeviceAddr == "192.168.38.1"
ControllerAddr == "192.168.38.11"
OtherAddr == "192.168.38.2"
Addrs == { DeviceAddr, ControllerAddr, OtherAddr }

Row(t, s, d) == [Time |-> t, Source |-> s, Destination |-> d]

\* what a file of the data directory can hold
Malformed == [kind |-> "malformed", hasTime |-> FALSE, rows |-> <<>>]
NoTimeTable == [kind |-> "table", hasTime |-> FALSE,
                rows |-> << Row(0, DeviceAddr, ControllerAddr) >>]
EmptyTable == [kind |-> "table", hasTime |-> TRUE, rows |-> <<>>]
SampleTable == [kind |-> "table", hasTime |-> TRUE,
                rows |-> << Row(0, DeviceAddr, ControllerAddr),
                            Row(1, ControllerAddr, DeviceAddr),
                            Row(2, OtherAddr, DeviceAddr),
                            Row(3, DeviceAddr, ControllerAddr) >>]
Contents == { Malformed, NoTimeTable, EmptyTable, SampleTable }

CwdFigures == "cwd/figures"
OtherDir == "out"
FigureDirArgs == { "None", OtherDir }

\* listings: the entries of a directory, each once, in the order of os.listdir
Listings ==
    { l \in SeqsUpTo(NamePool, MaxFiles) :
        \A i, j \in 1..Len(l) : i # j => l[i] # l[j] }

----------------------------------------------------------------------------
(* filter_data *)

\* variant testing the destination only
IsFromArmAnySource(r) == r.Destination = ControllerAddr

\* the mask of line 36
IsFromArm(r) == r.Destination = ControllerAddr /\ r.Source = DeviceAddr

\* the mask of line 35
IsToArm(r) == r.Destination = DeviceAddr /\ r.Source = ControllerAddr

\* frame[mask]: the rows the mask selects, in order, with the same columns
from_arm(frame) == [frame EXCEPT !.rows = SelectSeq(frame.rows, IsFromArm)]
to_arm(frame) == [frame EXCEPT !.rows = SelectSeq(frame.rows, IsToArm)]

filter_data(dataframes) ==
    [i \in 1..Len(dataframes) |->
        << from_arm(dataframes[i]), to_arm(dataframes[i]) >>]

----------------------------------------------------------------------------
(* The metrics of make_plot *)

MsScale == 1000

\* frame["Time"].to_numpy()
TimeArray(frame) == [i \in 1..Len(frame.rows) |-> frame.rows[i].Time]

\* variant keeping the trailing elements of the longer array
TruncateTail(status, command) ==
    IF Len(command) > Len(status)
    THEN << status,
            SubSeq(command, Len(command) - Len(status) + 1, Len(command)) >>
    ELSE << SubSeq(status, Len(status) - Len(command) + 1, Len(status)),
            command >>

\* lines 100-103: the pair (status_array, command_array) after truncation
Truncate(status, command) ==
    IF Len(command) > Len(status)
    THEN << status, SubSeq(command, 1, Len(status)) >>
    ELSE << SubSeq(status, 1, Len(command)), command >>

\* variant shifting the other way, np.roll(a, -1)
RollBack(a) ==
    [i \in 1..Len(a) |-> a[(i % Len(a)) + 1]]

\* np.roll(a, 1): element i moves to i+1, the last one wraps to the front
Roll(a) ==
    [i \in 1..Len(a) |-> a[((i - 2) % Len(a)) + 1]]

\* a - np.roll(a, 1)
Jitter(a) == [i \in 1..Len(a) |-> a[i] - Roll(a)[i]]

\* command_array - status_array (equal lengths after truncation)
Delay(status, command) ==
    [i \in 1..Len(command) |-> command[i] - status[i]]

\* variant keeping index 0, a[0:]
FromZero(a) == a

\* a[1:]
FromOne(a) == IF Len(a) = 0 THEN <<>> ELSE SubSeq(a, 2, Len(a))

\* 1000.*a
Scaled(a) == [i \in 1..Len(a) |-> MsScale * a[i]]

\* lines 93-119: the arrays make_plot computes and the three curves it plots
Metrics(status, command) ==
    LET t == Truncate(status, command)
        status_array == t[1]
        command_array == t[2]
        status_jitter == Jitter(status_array)
        command_jitter == Jitter(command_array)
        command_delay == Delay(status_array, command_array)
    IN  [ status_array |-> status_array,
          command_array |-> command_array,
          status_jitter |-> status_jitter,
          command_jitter |-> command_jitter,
          command_delay |-> command_delay,
          plot_status |-> [x |-> FromOne(status_array),
                           y |-> Scaled(FromOne(status_jitter))],
          plot_command |-> [x |-> FromOne(command_array),
                            y |-> Scaled(FromOne(command_jitter))],
          plot_delay |-> [x |-> command_array,
                          y |-> Scaled(command_delay)] ]

----------------------------------------------------------------------------
(* The run: __main__, main, load_data, make_plot *)

IdleFilter == trace = <<>> /\ fresult = <<>>
IdleMetrics == status_in = <<>> /\ command_in = <<>> /\ metrics = <<>>

Init ==
    /\ pc = "cli"
    /\ hide \in BOOLEAN
    /\ save \in BOOLEAN
    /\ figure_dir \in FigureDirArgs
    /\ dirExists \in BOOLEAN
    /\ listing \in Listings
    /\ (~dirExists => listing = <<>>)
    /\ content \in [Range(listing) -> Contents]
    /\ names = <<>>
    /\ filepaths = <<>>
    /\ frames = <<>>
    /\ titles = <<>>
    /\ filtered = <<>>
    /\ k = 0
    /\ created = <<>>
    /\ shown = <<>>
    /\ dirs \in { {}, {CwdFigures, OtherDir} }
    /\ made = <<>>
    /\ writes = <<>>
    /\ error = "none"
    /\ IdleFilter
    /\ IdleMetrics

Raise(e) == error' = e /\ pc' = "done"

\* lines 157-158: the default of --figure-dir
ResolveFigureDir(d) == IF d = "None" THEN CwdFigures ELSE d

\* variant with the two flags exchanged
NothingRequestedSwapped(h, s) == s /\ ~h

\* line 160: neither saving nor showing is requested
NothingRequested(h, s) == h /\ ~s

\* lines 146-163: defaults, validation of the flags, call of main
ParseArgs ==
    /\ pc = "cli"
    /\ figure_dir' = ResolveFigureDir(figure_dir)
    /\ IF NothingRequested(hide, save)
       THEN Raise("ValueError")
       ELSE pc' = "list" /\ error' = error
    /\ UNCHANGED <<hide, save, dirExists, listing, content, names, filepaths,
                   frames, titles, filtered, k, created, shown, dirs, made, writes>>
    /\ UNCHANGED <<filterVars, metricVars>>

\* lines 17-18: the two list comprehensions over os.listdir(data_dir)
ListDir ==
    /\ pc = "list"
    /\ IF ~dirExists
       THEN Raise("FileNotFoundError") /\ UNCHANGED <<names, filepaths>>
       ELSE /\ names' = SelectSeq(listing, IsCsv)
            /\ filepaths' = SelectSeq(listing, IsCsv)
            /\ pc' = "read"
            /\ error' = error
    /\ UNCHANGED <<hide, save, figure_dir, dirExists, listing, content,
                   frames, titles, filtered, k, created, shown, dirs, made, writes>>
    /\ UNCHANGED <<filterVars, metricVars>>

\* line 19: pd.read_csv raises on a file it cannot parse
ParseFails(f) == f.kind = "malformed"

\* line 19: pd.read_csv of the next file path; a parse error propagates
ReadCsv ==
    /\ pc = "read"
    /\ Len(frames) < Len(filepaths)
    /\ LET f == content[filepaths[Len(frames) + 1]]
       IN  IF ParseFails(f)
           THEN Raise("ParserError") /\ UNCHANGED frames
           ELSE frames' = Append(frames, f) /\ UNCHANGED <<pc, error>>
    /\ UNCHANGED <<hide, save, figure_dir, dirExists, listing, content, names,
                   filepaths, titles, filtered, k, created, shown, dirs, made, writes>>
    /\ UNCHANGED <<filterVars, metricVars>>

\* line 21: the names load_data returns
Stems(ns) == [i \in 1..Len(ns) |-> SplitFirst(ns[i])]

\* variant accepting an empty list
NoFramesAccepted(dataframes) == FALSE

\* line 137
NoFrames(dataframes) == Len(dataframes) = 0

\* lines 21, 135-138: load_data returns, main rejects an empty list
LoadReturn ==
    /\ pc = "read"
    /\ Len(frames) = Len(filepaths)
    /\ titles' = Stems(names)
    /\ IF NoFrames(frames)
       THEN Raise("RuntimeError")
       ELSE pc' = "filter" /\ error' = error
    /\ UNCHANGED <<hide, save, figure_dir, dirExists, listing, content, names,
                   filepaths, frames, filtered, k, created, shown, dirs, made, writes>>
    /\ UNCHANGED <<filterVars, metricVars>>

\* line 140
FilterFrames ==
    /\ pc = "filter"
    /\ filtered' = filter_data(frames)
    /\ pc' = "plot"
    /\ k' = 0
    /\ UNCHANGED <<hide, save, figure_dir, dirExists, listing, content, names,
                   filepaths, frames, titles, created, shown, dirs, made,
                   writes, error>>
    /\ UNCHANGED <<filterVars, metricVars>>

\* variant in which the missing column goes unnoticed
RenderFailsNever(status_frame, command_frame) == FALSE

\* lines 93-94: frame["Time"] raises KeyError on a table without that column
RenderFails(status_frame, command_frame) ==
    ~(status_frame.hasTime /\ command_frame.hasTime)

\* line 122: the directory make_plot saves into
SavePath(figures_dir) == CwdFigures

\* lines 61-130, called from line 143 for index k
MakePlot ==
    /\ pc = "plot"
    /\ k < Len(frames)
    /\ LET title == titles[k + 1]
           status_frame == filtered[k + 1][1]
           command_frame == filtered[k + 1][2]
           fig == [title |-> title, src |-> filepaths[k + 1]]
           figure_path == SavePath(figure_dir)
       IN  IF save /\ figure_dir = "None"
           THEN Raise("ValueError")
                /\ UNCHANGED <<created, shown, dirs, made, writes, k>>
           ELSE /\ created' = Append(created, fig)
                /\ IF RenderFails(status_frame, command_frame)
                   THEN Raise("KeyError")
                        /\ UNCHANGED <<shown, dirs, made, writes, k>>
                   ELSE /\ IF save
                           THEN /\ dirs' = dirs \cup {figure_path}
                                /\ made' = IF figure_path \in dirs THEN made
                                            ELSE Append(made, figure_path)
                                /\ writes' = Append(writes,
                                      [dir |-> figure_path,
                                       file |-> title \o PngSuffix,
                                       title |-> title,
                                       src |-> filepaths[k + 1],
                                       plot |-> Metrics(TimeArray(status_frame),
                                                        TimeArray(command_frame))])
                           ELSE UNCHANGED <<dirs, made, writes>>
                        /\ shown' = IF ~hide THEN Append(shown, fig) ELSE shown
                        /\ k' = k + 1
                        /\ UNCHANGED <<pc, error>>
    /\ UNCHANGED <<hide, save, figure_dir, dirExists, listing, content, names,
                   filepaths, frames, titles, filtered>>
    /\ UNCHANGED <<filterVars, metricVars>>

\* line 142: the loop ends, main returns
MainReturn ==
    /\ pc = "plot"
    /\ k = Len(frames)
    /\ pc' = "done"
    /\ UNCHANGED <<hide, save, figure_dir, dirExists, listing, content, names,
                   filepaths, frames, titles, filtered, k, created, shown,
                   dirs, made, writes, error>>
    /\ UNCHANGED <<filterVars, metricVars>>

Next ==
    \/ ParseArgs
    \/ ListDir
    \/ ReadCsv
    \/ LoadReturn
    \/ FilterFrames
    \/ MakePlot
    \/ MainReturn

Spec == Init /\ [][Next]_vars

\* the files that exist after the writes: a later write to a path replaces
\* the earlier one
Files == { <<writes[i].dir, writes[i].file>> : i \in 1..Len(writes) }

----------------------------------------------------------------------------
(* filter_data on one trace *)

\* two timestamps, so that a trace can hold equal and distinct rows
Rows == { Row(t, s, d) : t \in {0, 1}, s \in Addrs, d \in Addrs }

IdleRun ==
    /\ pc = "done" /\ hide = FALSE /\ save = FALSE /\ figure_dir = "None"
    /\ dirExists = FALSE /\ listing = <<>> /\ content = <<>>
    /\ names = <<>> /\ filepaths = <<>> /\ frames = <<>> /\ titles = <<>>
    /\ filtered = <<>> /\ k = 0 /\ created = <<>> /\ shown = <<>>
    /\ dirs = {} /\ made = <<>> /\ writes = <<>> /\ error = "none"

InitFilter ==
    /\ IdleRun
    /\ IdleMetrics
    /\ trace \in SeqsUpTo(Rows, MaxRows)
    /\ fresult = <<>>

\* lines 24-40 on the one-element list [trace]
ApplyFilter ==
    /\ fresult = <<>>
    /\ fresult' = filter_data(<< [kind |-> "table", hasTime |-> TRUE,
                                  rows |-> trace] >>)
    /\ UNCHANGED <<trace, runVars, metricVars>>

NextFilter == ApplyFilter

SpecFilter == InitFilter /\ [][NextFilter]_vars

----------------------------------------------------------------------------
(* The metrics of make_plot on two "Time" arrays *)

TimeArrays == SeqsUpTo(0..MaxTime, MaxLen)

InitMetrics ==
    /\ IdleRun
    /\ IdleFilter
    /\ status_in \in TimeArrays
    /\ command_in \in TimeArrays
    /\ metrics = <<>>

\* lines 93-119
ApplyMetrics ==
    /\ metrics = <<>>
    /\ metrics' = Metrics(status_in, command_in)
    /\ UNCHANGED <<status_in, command_in, runVars, filterVars>>

NextMetrics == ApplyMetrics

SpecMetrics == InitMetrics /\ [][NextMetrics]_vars

----------------------------------------------------------------------------
(* Properties of a run *)

\* the entries of the data directory whose name contains '.csv', in order
Selected == SelectSeq(listing, IsCsv)

\* the base name of an entry with its extension (the last dot and what
\* follows it) stripped
Stem(name) ==
    LET dots == { i \in 2..Len(name) : name[i] = "." }
    IN  IF dots = {} THEN name
        ELSE SubSeq(name, 1, (CHOOSE i \in dots : \A j \in dots : j <= i) - 1)

\* main has been entered: the flags passed the validation of line 160
MainEntered == pc # "cli" /\ ~NothingRequested(hide, save)

\* load_data has returned its two lists to main
Loaded == pc \in {"filter", "plot"} \/ (pc = "done" /\ titles # <<>>)

\* C1: after every successful save, the file figures_dir/<title>.png exists,
\* figures_dir being the output directory handed to make_plot, and that
\* directory exists.
C1_SavedInFiguresDir ==
    \A i \in 1..Len(writes) :
        /\ figure_dir \in dirs
        /\ << figure_dir, writes[i].title \o PngSuffix >> \in Files

\* C2: a run with --save that ends without error over n selected entries
\* leaves exactly n PNG files, one per input, each named after the base name
\* of its own CSV, no two inputs sharing a PNG path.
C2_OnePngPerCsv ==
    (pc = "done" /\ error = "none" /\ save) =>
        /\ Len(writes) = Len(Selected)
        /\ Cardinality(Files) = Len(Selected)
        /\ \A i \in 1..Len(writes) :
              /\ writes[i].src = Selected[i]
              /\ writes[i].file = Stem(writes[i].src) \o PngSuffix
        /\ \A i, j \in 1..Len(writes) :
              i # j => << writes[i].dir, writes[i].file >>
                         # << writes[j].dir, writes[j].file >>

\* C9: load_data returns as many names as Traces; names[i] is the stem of the
\* entry Trace i was parsed from; the entries included are exactly those
\* whose name contains '.csv'.
C9_NamesAreStems ==
    Loaded =>
        /\ Len(titles) = Len(frames)
        /\ Len(frames) = Len(Selected)
        /\ \A i \in 1..Len(frames) :
              /\ filepaths[i] = Selected[i]
              /\ frames[i] = content[filepaths[i]]
              /\ titles[i] = Stem(filepaths[i])
        /\ Range(filepaths) = { n \in Range(listing) : Contains(n, CsvMarker) }

\* C7: a run of main over a data directory with no selected entry ends with
\* the RuntimeError of main; make_plot is never called, no directory is
\* created, no file is written.
C7_EmptyDirFails ==
    (MainEntered /\ dirExists /\ Selected = <<>>) =>
        /\ created = <<>>
        /\ shown = <<>>
        /\ made = <<>>
        /\ writes = <<>>
        /\ pc \notin {"filter", "plot"}
        /\ (pc = "done" => error = "RuntimeError")

C7_Witness ==
    /\ pc = "done" /\ MainEntered /\ dirExists /\ Selected = <<>>
    /\ listing # <<>> /\ save /\ error = "RuntimeError"

\* C8: with --hide and without --save the run ends with the configuration
\* error (ValueError) before any input is read: the directory is not listed,
\* no CSV is loaded, no figure, directory or file is created.
C8_NothingRequestedFails ==
    (hide /\ ~save) =>
        /\ pc \in {"cli", "done"}
        /\ (pc = "done" => error = "ValueError")
        /\ names = <<>> /\ filepaths = <<>> /\ frames = <<>>
        /\ created = <<>> /\ shown = <<>>
        /\ made = <<>> /\ writes = <<>>

C8_Witness ==
    /\ hide /\ ~save /\ pc = "done" /\ error = "ValueError"
    /\ dirExists /\ Len(Selected) = MaxFiles /\ dirs = {}

\* C10: a figure exists only once every selected CSV has been parsed; a
\* parse failure ends the run with no figure; figures are made for the
\* Traces in order, none skipped or repeated, and after the first Trace whose
\* rendering fails no other figure is made.
C10_LoadAllThenRender ==
    /\ (created # <<>> =>
          /\ pc \in {"plot", "done"}
          /\ Len(frames) = Len(Selected)
          /\ \A i \in 1..Len(frames) :
                frames[i] = content[Selected[i]] /\ frames[i].kind = "table")
    /\ ((\E i \in 1..Len(Selected) : content[Selected[i]].kind = "malformed")
          => created = <<>> /\ writes = <<>> /\ shown = <<>>
             /\ (pc = "done" /\ MainEntered => error = "ParserError"))
    /\ Len(created) <= Len(frames)
    /\ \A i \in 1..Len(created) :
          /\ created[i].src = Selected[i]
          /\ (i < Len(created) => frames[i].hasTime)
    /\ (pc = "done" /\ Len(created) < Len(Selected) /\ created # <<>>
          => /\ error = "KeyError"
             /\ ~frames[Len(created)].hasTime)
    /\ \A i \in 1..Len(writes) : frames[i].hasTime /\ writes[i].src = Selected[i]

C10_Witness ==
    /\ pc = "done" /\ error = "KeyError"
    /\ Len(Selected) = 2 /\ Len(created) = 1
    /\ frames[2].hasTime

----------------------------------------------------------------------------
(* Properties of filter_data *)

Applied == fresult # <<>>

\* positions of the rows of the trace with the given source and destination
Positions(src, dst) ==
    { i \in 1..Len(trace) : trace[i].Source = src /\ trace[i].Destination = dst }

\* the n-th smallest element of a set of positions
Nth(P, n) == CHOOSE i \in P : Cardinality({ m \in P : m <= i }) = n

\* rows is the trace restricted to the positions P, in the original order
IsRestriction(rows, P) ==
    /\ Len(rows) = Cardinality(P)
    /\ \A n \in 1..Len(rows) : rows[n] = trace[Nth(P, n)]

\* C3: from_arm holds exactly the rows with Source 192.168.38.1 and
\* Destination 192.168.38.11, to_arm exactly the rows with Source
\* 192.168.38.11 and Destination 192.168.38.1, both in the original order; no
\* row is in both and a row matching neither pair is in neither.
C3_FilterPartitions ==
    Applied =>
        LET from == fresult[1][1].rows
            to == fresult[1][2].rows
            F == Positions("192.168.38.1", "192.168.38.11")
            T == Positions("192.168.38.11", "192.168.38.1")
        IN  /\ Len(fresult) = 1
            /\ IsRestriction(from, F)
            /\ IsRestriction(to, T)
            /\ Range(from) \cap Range(to) = {}
            /\ \A i \in 1..Len(trace) :
                  i \notin F \cup T =>
                      trace[i] \notin Range(from) \cup Range(to)

C3_Witness ==
    /\ Applied
    /\ Len(trace) = MaxRows
    /\ Len(fresult[1][1].rows) = 1
    /\ Len(fresult[1][2].rows) = 1
    /\ trace[1].Source = OtherAddr

----------------------------------------------------------------------------
(* Properties of the metrics *)

Computed == metrics # <<>>

\* the truncated length
MinLen == Min(Len(status_in), Len(command_in))

\* C4: the delay series has length min(a, b) and its i-th value is
\* command[i] - status[i]; it is plotted, in milliseconds, against the
\* leading min(a, b) command timestamps.
C4_DelayOverPrefix ==
    Computed =>
        /\ Len(metrics.command_delay) = MinLen
        /\ \A i \in 1..MinLen :
              metrics.command_delay[i] = command_in[i] - status_in[i]
        /\ Len(metrics.plot_delay.y) = MinLen
        /\ Len(metrics.plot_delay.x) = MinLen
        /\ \A i \in 1..MinLen :
              /\ metrics.plot_delay.y[i] = 1000 * (command_in[i] - status_in[i])
              /\ metrics.plot_delay.x[i] = command_in[i]

C4_Witness ==
    /\ Computed
    /\ Len(status_in) = MaxLen /\ Len(command_in) = 2
    /\ status_in[1] # status_in[2] /\ command_in[1] # command_in[2]
    /\ metrics.command_delay[2] # 0

\* C5 as stated: each plotted jitter series has length (truncated length - 1).
C5_JitterLengthStated ==
    Computed =>
        /\ Len(metrics.plot_status.y) = MinLen - 1
        /\ Len(metrics.plot_command.y) = MinLen - 1

\* C5 amended: each plotted jitter series has length (truncated length - 1)
\* when the truncated length is at least 1, the difference at index 0 being
\* dropped, and is empty when the truncated length is 0.
C5_JitterLength ==
    Computed =>
        /\ Len(metrics.plot_status.y) = (IF MinLen = 0 THEN 0 ELSE MinLen - 1)
        /\ Len(metrics.plot_command.y) = (IF MinLen = 0 THEN 0 ELSE MinLen - 1)
        /\ Len(metrics.plot_status.x) = Len(metrics.plot_status.y)
        /\ Len(metrics.plot_command.x) = Len(metrics.plot_command.y)
        /\ Len(metrics.status_jitter) = MinLen
        /\ Len(metrics.command_jitter) = MinLen
        /\ \A i \in 1..Len(metrics.plot_status.y) :
              metrics.plot_status.y[i] = 1000 * metrics.status_jitter[i + 1]
        /\ \A i \in 1..Len(metrics.plot_command.y) :
              metrics.plot_command.y[i] = 1000 * metrics.command_jitter[i + 1]

C5_Witness ==
    /\ Computed
    /\ Len(status_in) = 2 /\ Len(command_in) = MaxLen
    /\ Len(metrics.plot_status.y) = 1
    /\ metrics.status_jitter[1] # metrics.status_jitter[2]

\* C6: with n the truncated length, the plotted status jitter is, for each
\* 0-based i in 1..n-1 in turn, status[i] - status[i-1] (in milliseconds),
\* plotted against status[i], and likewise for command; the sample at index
\* 0, status[0] - status[n-1], is not one of the plotted samples.
C6_JitterConsecutive ==
    Computed =>
        /\ \A i \in 2..MinLen :
              /\ metrics.plot_status.y[i - 1]
                    = 1000 * (status_in[i] - status_in[i - 1])
              /\ metrics.plot_status.x[i - 1] = status_in[i]
              /\ metrics.plot_command.y[i - 1]
                    = 1000 * (command_in[i] - command_in[i - 1])
              /\ metrics.plot_command.x[i - 1] = command_in[i]
        /\ DOMAIN metrics.plot_status.y = 1..(IF MinLen = 0 THEN 0 ELSE MinLen - 1)
        /\ DOMAIN metrics.plot_command.y = 1..(IF MinLen = 0 THEN 0 ELSE MinLen - 1)
        /\ (MinLen >= 1 =>
              /\ metrics.status_jitter[1] = status_in[1] - status_in[MinLen]
              /\ metrics.command_jitter[1] = command_in[1] - command_in[MinLen])

C6_Witness ==
    /\ Computed
    /\ Len(status_in) = 3 /\ Len(command_in) = 3
    /\ status_in[1] < status_in[2] /\ status_in[2] < status_in[3]
    /\ metrics.plot_status.y = << 1000 * (status_in[2] - status_in[1]),
                                  1000 * (status_in[3] - status_in[2]) >>

====
